---- MODULE Spec2Model ----
(***************************************************************************)
(* Model of the manifest backend: the auth controller (register,           *)
(* verifyRegistration, login, resendOtp, verifyOtpReset) over the User,    *)
(* PendingUser and Metric stores, and the auth middleware (authMiddleware, *)
(* requireRole, isAdmin, isStaff).                                         *)
(*                                                                         *)
(* In Spec every request is handled to completion before the next one      *)
(* starts, and the data store and the mail transport do not fail.          *)
(* Time is in milliseconds, as Date.now() gives it.                        *)
(***************************************************************************)
EXTENDS Integers, Sequences, FiniteSets, TLC

VARIABLES
  users,      \* User table: sequence of rows, a row's id is its position
  pending,    \* PendingUser table: function from email (primary key) to row
  metrics,    \* Metric table: function from date to row
  now,        \* the clock, Date.now()
  req,        \* the request handled last: handler name and inputs
  res,        \* the response sent for it (status and JSON body fields)
  mail,       \* the mails handed to transporter.sendMail while handling it
  attached,   \* req.user of the request in the middleware chain: <<>> or <<row>>
  nextCalled, \* whether the middleware that ran last called next()
  accepted,   \* history: the <<email, otp>> pairs verifyRegistration accepted
  rewritten,  \* the emails whose PendingUser row was overwritten while handling it
  calls,      \* the handlers in flight when requests overlap: position and locals -> count
  metricRows  \* the rows Metric.findAll reads, in storage order; dates may repeat

vars == <<users, pending, metrics, now, req, res, mail, attached, nextCalled,
          accepted, rewritten, calls, metricRows>>

----------------------------------------------------------------------------
(* Bounds of the model *)

\* The clock advances MaxTicks times at most.
MaxTicks == 3

\* One step of the clock: seven and a half minutes.
TickMs == 450 * 1000

\* Length of a day; Init is one step of the clock before midnight of day 0.
DayMs == 24 * 60 * 60 * 1000

StartMs == DayMs - TickMs

\* The draws of Math.random() that genOTP is given, as thousandths.
RandomDraws == {0, 999}

Emails == {"a@x.com", "b@x.com"}

\* A field that the JSON body does not carry (undefined, or the empty string).
Missing == ""

\* null in an otp column, and in an otpExpires column.
Null == "null"

NullDate == -1

\* Register bodies with all required fields: two for the first email (the
\* second leaves name, phone and role out), one for the second email.
Bodies ==
  { [email |-> "a@x.com", username |-> "alice", name |-> "Alice",
     password |-> "pw-a", phone |-> "111", role |-> "admin"],
    [email |-> "a@x.com", username |-> "bob", name |-> Missing,
     password |-> "pw-b", phone |-> Missing, role |-> Missing],
    [email |-> "b@x.com", username |-> "carol", name |-> "Carol",
     password |-> "pw-c", phone |-> "333", role |-> "manager"] }

\* Register bodies that lack a required field.
BadBodies ==
  { [email |-> "a@x.com", username |-> Missing, name |-> "Alice",
     password |-> "pw-a", phone |-> "111", role |-> "admin"],
    [email |-> Missing, username |-> "alice", name |-> "Alice",
     password |-> "pw-a", phone |-> "111", role |-> "admin"],
    [email |-> "a@x.com", username |-> "alice", name |-> "Alice",
     password |-> Missing, phone |-> "111", role |-> "admin"] }

\* The draws of Math.random() tried for an email: both for the first
\* email (and for a missing one), the first draw alone for the second email.
DrawsFor(email) == IF email = "b@x.com" THEN {0} ELSE RandomDraws

\* The passwords a client may send to login.
Passwords == {"pw-a", "pw-new"}

----------------------------------------------------------------------------
(* Library calls and helpers of authController.js *)

\* genOTP: Math.floor(100000 + Math.random() * 900000).toString(),
\* with Math.random() = r / 1000.
genOTP(r) == ToString(100000 + ((r * 900000) \div 1000))

\* The OTP strings a client may send: the ones genOTP can produce here,
\* and one it never produces.
OtpInputs == {genOTP(r) : r \in RandomDraws} \cup {"000000"}

\* new Date(Date.now() + 15 * 60 * 1000)
OtpTtlMs == 15 * 60 * 1000

\* OtpExpiry with ten minutes instead of fifteen.
OtpExpiry_TenMinutes(t) == t + 10 * 60 * 1000

OtpExpiry(t) == t + OtpTtlMs

\* IsExpired with the comparison turned round.
IsExpired_Reversed(t, expires) == t < expires

\* new Date() > expires
IsExpired(t, expires) == t > expires

\* bcrypt.hash(password, 10): a digest that is not the password.
BcryptHash(password) == <<"$2a$10$", password>>

\* bcrypt.compare(password, hash)
BcryptCompare(password, hash) == hash = BcryptHash(password)

\* new Date().toISOString().split('T')[0]: the UTC day of t.
IsoDate(t) == t \div DayMs

\* const { ..., role = 'staff' } = req.body
RoleOrDefault(role) == IF role = Missing THEN "staff" ELSE role

\* A table keyed by primary key, without rows.
NoRows == [k \in {} |-> 0]

\* User.findOne({ where: { email } }): the ids of the rows with that email.
UserIdsByEmail(email) == {i \in DOMAIN users : users[i].email = email}

HasUser(email) == UserIdsByEmail(email) # {}

FindUser(email) ==
  users[CHOOSE i \in UserIdsByEmail(email) :
          \A j \in UserIdsByEmail(email) : i <= j]

\* PendingUser.findByPk(email)
HasPending(email) == email \in DOMAIN pending

\* DestroyPending that deletes nothing.
DestroyPending_KeepsRow(email) == pending

\* pending.destroy(): DELETE FROM PendingUsers WHERE email = ...
DestroyPending(email) == [e \in (DOMAIN pending) \ {email} |-> pending[e]]

\* UpsertPending that inserts a row only when the email has none, and
\* otherwise renews the OTP and the expiry of the row it finds.
UpsertPending_KeepsExisting(row) ==
  [e \in (DOMAIN pending) \cup {row.email} |->
     IF e # row.email THEN pending[e]
     ELSE IF e \in DOMAIN pending
       THEN [pending[e] EXCEPT !.otp = row.otp, !.expires = row.expires]
     ELSE row]

\* PendingUser.upsert(row)
UpsertPending(row) ==
  [e \in (DOMAIN pending) \cup {row.email} |->
     IF e = row.email THEN row ELSE pending[e]]

\* The row that register stores for a body.
PendingRow(body, otp, t) ==
  [email        |-> body.email,
   username     |-> body.username,
   name         |-> body.name,
   passwordHash |-> BcryptHash(body.password),
   phone        |-> body.phone,
   role         |-> RoleOrDefault(body.role),
   otp          |-> otp,
   expires      |-> OtpExpiry(t)]

\* UserRow that fills name from the username.
UserRow_NameFromUsername(p) ==
  [id           |-> Len(users) + 1,
   username     |-> p.username,
   name         |-> p.username,
   email        |-> p.email,
   passwordHash |-> p.passwordHash,
   phone        |-> p.phone,
   role         |-> p.role,
   otp          |-> p.otp,
   otpExpires   |-> p.expires]

\* The row User.create stores for a PendingUser row.
UserRow(p) ==
  [id           |-> Len(users) + 1,
   username     |-> p.username,
   name         |-> p.name,
   email        |-> p.email,
   passwordHash |-> p.passwordHash,
   phone        |-> p.phone,
   role         |-> p.role,
   otp          |-> p.otp,
   otpExpires   |-> p.expires]

\* Metric.findOrCreate for today, and the increment of a row found.
BumpMetric(t) ==
  LET today == IsoDate(t) IN
  IF today \in DOMAIN metrics
    THEN [metrics EXCEPT ![today].totalUsers = @ + 1]
    ELSE [d \in (DOMAIN metrics) \cup {today} |->
            IF d = today
              THEN [totalUsers |-> 1, totalSales |-> 0, totalConversions |-> 0]
              ELSE metrics[d]]

----------------------------------------------------------------------------
(* The state after start-up: empty tables, nothing handled yet. *)

Init ==
  /\ users = <<>>
  /\ pending = NoRows
  /\ metrics = NoRows
  /\ now = StartMs
  /\ req = [op |-> "none"]
  /\ res = [status |-> 0]
  /\ mail = <<>>
  /\ attached = <<>>
  /\ nextCalled = FALSE
  /\ accepted = {}
  /\ rewritten = {}
  /\ calls = NoRows
  /\ metricRows = <<>>

\* A controller handler runs at the end of the chain on a request of its
\* own; handled in one step, it overlaps with no other request.
NoChain == /\ attached' = <<>>
           /\ nextCalled' = FALSE
           /\ UNCHANGED <<calls, metricRows>>

Tick ==
  /\ now < StartMs + MaxTicks * TickMs
  /\ now' = now + TickMs
  /\ UNCHANGED <<users, pending, metrics, req, res, mail, attached,
                 nextCalled, accepted, rewritten, calls, metricRows>>

----------------------------------------------------------------------------
(* exports.register *)

\* RegisterStatus without the lookup of an existing User.
RegisterStatus_NoExistingCheck(body) ==
  IF body.username = Missing \/ body.email = Missing \/ body.password = Missing
    THEN 400
  ELSE 200

RegisterStatus(body) ==
  IF body.username = Missing \/ body.email = Missing \/ body.password = Missing
    THEN 400
  ELSE IF HasUser(body.email) THEN 409
  ELSE 200

register(body, r) ==
  LET status == RegisterStatus(body)
      otp == genOTP(r)
  IN
  /\ req' = [op |-> "register", body |-> body]
  /\ IF status = 200
       THEN /\ pending' = UpsertPending(PendingRow(body, otp, now))
            /\ rewritten' = IF HasPending(body.email) THEN {body.email} ELSE {}
            /\ mail' = <<[to |-> body.email, subject |-> "Your Registration OTP",
                          otp |-> otp]>>
            /\ res' = [status |-> 200, message |-> "OTP sent to your email"]
       ELSE /\ UNCHANGED pending
            /\ rewritten' = {}
            /\ mail' = <<>>
            /\ res' = [status |-> status,
                       message |-> IF status = 400 THEN "Missing required fields"
                                   ELSE "Email already registered"]
  /\ NoChain
  /\ UNCHANGED <<users, metrics, now, accepted>>

----------------------------------------------------------------------------
(* exports.verifyRegistration *)

\* VerifyRegistrationOutcome without the lookup of a duplicate User.
VerifyRegistrationOutcome_NoDuplicateCheck(email, otp) ==
  IF ~HasPending(email) THEN "absent"
  ELSE IF pending[email].otp # otp THEN "invalid"
  ELSE IF IsExpired(now, pending[email].expires) THEN "expired"
  ELSE "created"

\* VerifyRegistrationOutcome that looks for a duplicate User before it
\* compares the OTP and the expiry.
VerifyRegistrationOutcome_DuplicateFirst(email, otp) ==
  IF ~HasPending(email) THEN "absent"
  ELSE IF HasUser(email) THEN "duplicate"
  ELSE IF pending[email].otp # otp THEN "invalid"
  ELSE IF IsExpired(now, pending[email].expires) THEN "expired"
  ELSE "created"

VerifyRegistrationOutcome(email, otp) ==
  IF ~HasPending(email) THEN "absent"
  ELSE IF pending[email].otp # otp THEN "invalid"
  ELSE IF IsExpired(now, pending[email].expires) THEN "expired"
  ELSE IF HasUser(email) THEN "duplicate"
  ELSE "created"

verifyRegistration(email, otp) ==
  LET outcome == VerifyRegistrationOutcome(email, otp) IN
  /\ req' = [op |-> "verifyRegistration", email |-> email, otp |-> otp]
  /\ mail' = <<>>
  /\ CASE outcome = "created" ->
            /\ users' = Append(users, UserRow(pending[email]))
            /\ metrics' = BumpMetric(now)
            /\ pending' = DestroyPending(email)
            /\ accepted' = accepted \cup {<<email, otp>>}
            /\ res' = [status |-> 201, message |-> "Registration successful",
                       userId |-> Len(users) + 1]
       [] outcome = "duplicate" ->
            /\ pending' = DestroyPending(email)
            /\ res' = [status |-> 400, message |-> "User already registered."]
            /\ UNCHANGED <<users, metrics, accepted>>
       [] OTHER ->
            /\ res' = [status |-> 400,
                       message |-> CASE outcome = "absent" ->
                                          "No registration found for this email"
                                     [] outcome = "invalid" -> "Invalid OTP"
                                     [] OTHER -> "OTP expired. Please request a new one."]
            /\ UNCHANGED <<users, metrics, pending, accepted>>
  /\ NoChain
  /\ rewritten' = {}
  /\ UNCHANGED now

\* The awaited store calls of verifyRegistration that may throw here:
\* the Metric update (findOrCreate or save, inside the inner try) and
\* pending.destroy().
Faults == {"metric", "destroy"}

\* FaultStatus without the inner try/catch around the Metric update.
FaultStatus_MetricNotCaught(fault) == 500

\* The status verifyRegistration ends with once a store call has thrown:
\* the inner catch swallows a Metric failure, the outer catch answers 500.
FaultStatus(fault) == IF fault = "metric" THEN 201 ELSE 500

\* verifyRegistration in a run where the store call named by fault throws.
verifyRegistrationFaulty(email, otp, fault) ==
  LET outcome == VerifyRegistrationOutcome(email, otp)
      status == FaultStatus(fault)
  IN
  /\ \/ outcome = "created"
     \/ outcome = "duplicate" /\ fault = "destroy"
  /\ req' = [op |-> "verifyRegistration", email |-> email, otp |-> otp,
             fault |-> fault]
  /\ mail' = <<>>
  /\ IF outcome = "created"
       THEN /\ users' = Append(users, UserRow(pending[email]))
            /\ metrics' = IF fault = "metric" THEN metrics ELSE BumpMetric(now)
            /\ pending' = IF fault = "destroy" THEN pending
                          ELSE DestroyPending(email)
            /\ accepted' = accepted \cup {<<email, otp>>}
       ELSE UNCHANGED <<users, metrics, pending, accepted>>
  /\ res' = IF status = 201
              THEN [status |-> 201, message |-> "Registration successful",
                    userId |-> Len(users) + 1]
              ELSE [status |-> status, message |-> "Server error verifying OTP"]
  /\ NoChain
  /\ rewritten' = {}
  /\ UNCHANGED now

----------------------------------------------------------------------------
(* exports.resendOtp *)

resendOtp(email, r) ==
  LET otp == genOTP(r) IN
  /\ req' = [op |-> "resendOtp", email |-> email]
  /\ IF email # Missing /\ HasPending(email)
       THEN /\ pending' = [pending EXCEPT ![email].otp = otp,
                                          ![email].expires = OtpExpiry(now)]
            /\ mail' = <<[to |-> email, subject |-> "Your New OTP", otp |-> otp]>>
            /\ res' = [status |-> 200, message |-> "OTP resent successfully"]
       ELSE /\ UNCHANGED pending
            /\ mail' = <<>>
            /\ res' = [status |-> 400,
                       message |-> IF email = Missing THEN "Email is required"
                                   ELSE "No pending registration found for this email"]
  /\ NoChain
  /\ rewritten' = {}
  /\ UNCHANGED <<users, metrics, now, accepted>>

----------------------------------------------------------------------------
(* exports.login *)

\* process.env.JWT_SECRET, and a key that is not it.
JwtSecret == "jwt-secret"

ForeignSecret == "other-secret"

\* process.env.JWT_EXPIRES_IN, here set to twenty minutes (the default is '7d').
JwtExpiresInMs == 20 * 60 * 1000

\* jwt.sign(payload, secret, { expiresIn }): the signature covers the claims.
JwtSign(payload, secret, t) ==
  LET claims == [id |-> payload.id, username |-> payload.username,
                 role |-> payload.role, email |-> payload.email,
                 iat |-> t, exp |-> t + JwtExpiresInMs]
  IN [claims |-> claims, sig |-> <<secret, claims>>]

\* jwt.verify(token, secret) does not throw.
JwtVerifies(token, secret, t) ==
  /\ token.sig = <<secret, token.claims>>
  /\ t < token.claims.exp

\* LoginPayload with a fixed role instead of the stored one.
LoginPayload_FixedRole(user) ==
  [id |-> user.id, username |-> user.username, role |-> "staff",
   email |-> user.email]

\* The payload login signs.
LoginPayload(user) ==
  [id |-> user.id, username |-> user.username, role |-> user.role,
   email |-> user.email]

\* LoginStatus without the password comparison.
LoginStatus_NoCompare(email, password) ==
  IF email = Missing \/ password = Missing THEN 400
  ELSE IF ~HasUser(email) THEN 401
  ELSE 200

LoginStatus(email, password) ==
  IF email = Missing \/ password = Missing THEN 400
  ELSE IF ~HasUser(email) THEN 401
  ELSE IF ~BcryptCompare(password, FindUser(email).passwordHash) THEN 401
  ELSE 200

login(email, password) ==
  LET status == LoginStatus(email, password) IN
  /\ req' = [op |-> "login", email |-> email, password |-> password]
  /\ res' = IF status = 200
              THEN LET payload == LoginPayload(FindUser(email)) IN
                   [status |-> 200,
                    token |-> JwtSign(payload, JwtSecret, now),
                    user |-> payload]
              ELSE [status |-> status,
                    message |-> IF status = 400 THEN "Missing credentials"
                                ELSE IF ~HasUser(email) THEN "User not found"
                                ELSE "Invalid password"]
  /\ mail' = <<>>
  /\ NoChain
  /\ rewritten' = {}
  /\ UNCHANGED <<users, pending, metrics, now, accepted>>

----------------------------------------------------------------------------
(* exports.verifyOtpReset *)

\* ResetOtpRejected without the expiry comparison.
ResetOtpRejected_NoExpiryCheck(user, otp, t) ==
  \/ user.otp = Null
  \/ user.otp = Missing
  \/ user.otp # otp

\* !user.otp || user.otp !== otp || new Date() > user.otpExpires
ResetOtpRejected(user, otp, t) ==
  \/ user.otp = Null
  \/ user.otp = Missing
  \/ user.otp # otp
  \/ IsExpired(t, user.otpExpires)

VerifyOtpResetStatus(email, otp, newPassword) ==
  IF email = Missing \/ otp = Missing \/ newPassword = Missing THEN 400
  ELSE IF ~HasUser(email) THEN 404
  ELSE IF ResetOtpRejected(FindUser(email), otp, now) THEN 400
  ELSE 200

verifyOtpReset(email, otp, newPassword) ==
  LET status == VerifyOtpResetStatus(email, otp, newPassword) IN
  /\ req' = [op |-> "verifyOtpReset", email |-> email, otp |-> otp,
             newPassword |-> newPassword]
  /\ IF status = 200
       THEN /\ users' = [users EXCEPT
                           ![FindUser(email).id].passwordHash = BcryptHash(newPassword),
                           ![FindUser(email).id].otp = Null,
                           ![FindUser(email).id].otpExpires = NullDate]
            /\ res' = [status |-> 200, message |-> "Password updated successfully"]
       ELSE /\ UNCHANGED users
            /\ res' = [status |-> status,
                       message |-> IF status = 404 THEN "User not found"
                                   ELSE IF email = Missing \/ otp = Missing
                                           \/ newPassword = Missing
                                     THEN "Email, OTP and new password required"
                                   ELSE "Invalid or expired OTP"]
  /\ mail' = <<>>
  /\ NoChain
  /\ rewritten' = {}
  /\ UNCHANGED <<pending, metrics, now, accepted>>

----------------------------------------------------------------------------
----------------------------------------------------------------------------
(* middleware/auth.js: exports.authMiddleware *)

\* An Authorization header is modelled by header.split(' '): <<>> when the
\* request has none, else its words; the second word is a token.
\* StartsWithBearer that accepts any first word.
StartsWithBearer_AnyScheme(header) == Len(header) >= 2

\* header.startsWith('Bearer ')
StartsWithBearer(header) == Len(header) >= 2 /\ header[1] = "Bearer"

AuthOutcome(header) ==
  IF Len(header) = 0 \/ ~StartsWithBearer(header) THEN "header"
  ELSE IF ~JwtVerifies(header[2], JwtSecret, now) THEN "token"
  ELSE IF header[2].claims.id \notin DOMAIN users THEN "user"
  ELSE "next"

authMiddleware(header) ==
  LET outcome == AuthOutcome(header) IN
  /\ req' = [op |-> "authMiddleware", header |-> header]
  /\ IF outcome = "next"
       THEN /\ attached' = <<users[header[2].claims.id]>>
            /\ nextCalled' = TRUE
            /\ res' = [status |-> 0]
       ELSE /\ attached' = <<>>
            /\ nextCalled' = FALSE
            /\ res' = [status |-> 401,
                       message |-> CASE outcome = "header" ->
                                          "Missing or invalid auth header"
                                     [] outcome = "token" -> "Invalid or expired token"
                                     [] OTHER -> "Invalid token user"]
  /\ mail' = <<>>
  /\ rewritten' = {}
  /\ UNCHANGED <<users, pending, metrics, now, accepted, calls, metricRows>>

----------------------------------------------------------------------------
(* middleware/auth.js: exports.requireRole, exports.isAdmin, exports.isStaff *)

\* RoleAllowed that only asks for an attached user.
RoleAllowed_AnyUser(user, roles) == Len(user) > 0

\* !req.user || !roles.includes(req.user.role), negated
RoleAllowed(user, roles) == Len(user) > 0 /\ user[1].role \in roles

\* !req.user || req.user.role !== 'admin', negated
AdminAllowed(user) == Len(user) > 0 /\ user[1].role = "admin"

\* !req.user || req.user.role !== 'staff', negated
StaffAllowed(user) == Len(user) > 0 /\ user[1].role = "staff"

\* The req.user a gate may find: that of the request the chain handed on
\* by next(), or none on a route that runs no authMiddleware first.
GateUsers == {<<>>} \cup (IF nextCalled THEN {attached} ELSE {})

\* A gate on a request whose req.user is user.
Gate(op, roles, user, allowed, denial) ==
  /\ req' = [op |-> op, roles |-> roles]
  /\ attached' = user
  /\ nextCalled' = allowed
  /\ res' = IF allowed THEN [status |-> 0]
            ELSE [status |-> 403, message |-> denial]
  /\ mail' = <<>>
  /\ rewritten' = {}
  /\ UNCHANGED <<users, pending, metrics, now, accepted, calls, metricRows>>

requireRole(roles, user) ==
  Gate("requireRole", roles, user, RoleAllowed(user, roles), "Access denied")

isAdmin(user) ==
  Gate("isAdmin", {"admin"}, user, AdminAllowed(user), "Admin access only")

isStaff(user) ==
  Gate("isStaff", {"staff"}, user, StaffAllowed(user), "Staff access only")

----------------------------------------------------------------------------
(* The requests tried *)

\* The bodies a client may send to verifyOtpReset.
ResetBodies ==
  {[email |-> e, otp |-> o, newPassword |-> "pw-new"] :
      e \in Emails, o \in OtpInputs}
  \cup {[email |-> Missing, otp |-> "000000", newPassword |-> "pw-new"],
        [email |-> "a@x.com", otp |-> Missing, newPassword |-> "pw-new"],
        [email |-> "a@x.com", otp |-> "000000", newPassword |-> Missing]}

Next ==
  \/ Tick
  \/ \E b \in Bodies : \E r \in DrawsFor(b.email) : register(b, r)
  \/ \E b \in BadBodies : register(b, 0)
  \/ \E e \in Emails, o \in OtpInputs : verifyRegistration(e, o)
  \/ \E e \in Emails \cup {Missing} : \E r \in DrawsFor(e) : resendOtp(e, r)
  \/ \E e \in Emails \cup {Missing}, p \in Passwords \cup {Missing} : login(e, p)
  \/ \E b \in ResetBodies : verifyOtpReset(b.email, b.otp, b.newPassword)

Spec == Init /\ [][Next]_vars

----------------------------------------------------------------------------
(* The middleware chain: users are registered and verified with one OTP    *)
(* draw, log in, and their requests pass authMiddleware and the role gates. *)

\* Payloads a presented token may carry: ids with and without a User row,
\* and a role that need not be the stored one.
PayloadInputs ==
  {[id |-> i, username |-> "alice", role |-> "staff", email |-> "a@x.com"] :
      i \in 1 .. 3}

\* A string that is no JWT (also what split gives after two spaces).
MalformedToken ==
  [claims |-> [id |-> 1, username |-> "", role |-> "", email |-> "",
               iat |-> 0, exp |-> 0],
   sig |-> <<>>]

\* A token signed for one payload whose role claim was rewritten afterwards.
TamperedToken ==
  LET t == JwtSign([id |-> 1, username |-> "alice", role |-> "staff",
                    email |-> "a@x.com"], JwtSecret, StartMs)
  IN [t EXCEPT !.claims.role = "admin"]

TokenInputs ==
  {JwtSign(p, k, StartMs) : p \in PayloadInputs, k \in {JwtSecret, ForeignSecret}}
  \cup {MalformedToken, TamperedToken}
  \cup (IF "token" \in DOMAIN res THEN {res.token} ELSE {})

HeaderInputs ==
  {<<>>, <<"Bearer">>}
  \cup {<<"Bearer", t>> : t \in TokenInputs}
  \cup {<<"Basic", JwtSign(p, JwtSecret, StartMs)>> : p \in PayloadInputs}
  \cup {<<"Bearer", JwtSign(p, JwtSecret, StartMs), "x">> : p \in PayloadInputs}

RoleSets == {{}, {"admin"}, {"staff", "manager"}, {"admin", "staff", "manager"}}

NextChain ==
  \/ Tick
  \/ \E b \in Bodies : register(b, 0)
  \/ \E e \in Emails : verifyRegistration(e, genOTP(0))
  \/ \E e \in Emails, p \in Passwords : login(e, p)
  \/ \E h \in HeaderInputs : authMiddleware(h)
  \/ \E roles \in RoleSets, u \in GateUsers : requireRole(roles, u)
  \/ \E u \in GateUsers : isAdmin(u)
  \/ \E u \in GateUsers : isStaff(u)

SpecChain == Init /\ [][NextChain]_vars

----------------------------------------------------------------------------
(* Store failures: registrations and verifications, handled one at a time, *)
(* in which the Metric update or pending.destroy() may throw.              *)

NextFault ==
  \/ Tick
  \/ \E b \in Bodies : \E r \in DrawsFor(b.email) : register(b, r)
  \/ \E e \in Emails, o \in OtpInputs : verifyRegistration(e, o)
  \/ \E e \in Emails, o \in OtpInputs, f \in Faults :
       verifyRegistrationFaulty(e, o, f)

SpecFault == Init /\ [][NextFault]_vars

----------------------------------------------------------------------------
(* Overlapping requests. A handler runs until its next await and resumes   *)
(* when the awaited store call has answered, so the handlers of requests   *)
(* in flight interleave at their store calls. One step below is one store  *)
(* call together with the code that follows it up to the next store call;  *)
(* bcrypt.hash and sendMail touch no table and belong to the step they     *)
(* follow. No store call throws except User.create on a taken email; the   *)
(* clock stands still.                                                     *)

\* The number of requests that may be in flight together.
MaxInFlight == 2

RaceEmails == Emails \cup {"c@x.com"}

\* One register body for every email.
RaceBodies ==
  { [email |-> "a@x.com", username |-> "alice", name |-> "Alice",
     password |-> "pw-a", phone |-> "111", role |-> "admin"],
    [email |-> "b@x.com", username |-> "carol", name |-> "Carol",
     password |-> "pw-c", phone |-> "333", role |-> "manager"],
    [email |-> "c@x.com", username |-> "dave", name |-> Missing,
     password |-> "pw-d", phone |-> Missing, role |-> Missing] }

\* Every genOTP() call of these runs draws the same number.
RaceDraw == CHOOSE r \in RandomDraws : \A q \in RandomDraws : r <= q

\* The emails whose OTP is asked for again.
ResendEmails == {"a@x.com"}

\* User.create without a unique index on email.
UserCreateRejected_NoUniqueIndex(email) == FALSE

\* The User table has a unique index on email: User.create for an email
\* that has a row throws.
UserCreateRejected(email) == HasUser(email)

\* The request a call is handling.
CallRequest(c) ==
  CASE c.op = "register" -> [op |-> "register", body |-> c.body]
    [] c.op = "verifyRegistration" ->
         [op |-> "verifyRegistration", email |-> c.email, otp |-> c.otp]
    [] OTHER -> [op |-> "resendOtp", email |-> c.email]

RECURSIVE CountCalls(_)
\* The number of calls among those of the records in set.
CountCalls(set) ==
  IF set = {} THEN 0
  ELSE LET c == CHOOSE x \in set : TRUE IN calls[c] + CountCalls(set \ {c})

\* The number of requests in flight. calls counts the handlers that stand
\* at the same store call with the same locals.
InFlight == CountCalls(DOMAIN calls)

\* calls with one more handler at c.
WithCall(c) ==
  IF c \in DOMAIN calls THEN [calls EXCEPT ![c] = @ + 1]
  ELSE [x \in (DOMAIN calls) \cup {c} |-> IF x = c THEN 1 ELSE calls[x]]

\* calls with one handler at c fewer.
WithoutCall(c) ==
  IF calls[c] > 1 THEN [calls EXCEPT ![c] = @ - 1]
  ELSE [x \in (DOMAIN calls) \ {c} |-> calls[x]]

\* A request arrives and its handler runs up to the store call of c.
Begin(c) ==
  /\ calls' = WithCall(c)
  /\ UNCHANGED <<req, res, mail, rewritten, attached, nextCalled, now,
                 metricRows>>

\* The handler at c moves on to its next store call, at d.
Await(c, d) ==
  /\ LET rest == WithoutCall(c) IN
     calls' = [x \in (DOMAIN rest) \cup {d} |->
                 (IF x \in DOMAIN rest THEN rest[x] ELSE 0)
                 + (IF x = d THEN 1 ELSE 0)]
  /\ UNCHANGED <<req, res, mail, rewritten, attached, nextCalled, now,
                 metricRows>>

\* A handler answers a request.
Answer(request, response, sent, overwritten) ==
  /\ req' = request
  /\ res' = response
  /\ mail' = sent
  /\ rewritten' = overwritten
  /\ UNCHANGED <<attached, nextCalled, now, metricRows>>

\* The handler at c answers and is over.
Respond(c, response, sent, overwritten) ==
  /\ calls' = WithoutCall(c)
  /\ Answer(CallRequest(c), response, sent, overwritten)

At(c, op, pc) == c \in DOMAIN calls /\ c.op = op /\ c.pc = pc

\* register: validation and User.findOne.
RegisterFindOne(body) ==
  LET status == RegisterStatus(body)
      request == [op |-> "register", body |-> body]
  IN
  /\ InFlight < MaxInFlight
  /\ IF status = 200
       THEN Begin([op |-> "register", body |-> body, pc |-> "upsert"])
       ELSE /\ Answer(request,
                      [status |-> status,
                       message |-> IF status = 400 THEN "Missing required fields"
                                   ELSE "Email already registered"],
                      <<>>, {})
            /\ UNCHANGED calls
  /\ UNCHANGED <<users, pending, metrics, accepted>>

\* register: PendingUser.upsert, the mail and the answer.
RegisterUpsert(c) ==
  /\ At(c, "register", "upsert")
  /\ LET body == c.body
         otp == genOTP(RaceDraw)
     IN
     /\ pending' = UpsertPending(PendingRow(body, otp, now))
     /\ Respond(c,
                [status |-> 200, message |-> "OTP sent to your email"],
                <<[to |-> body.email, subject |-> "Your Registration OTP",
                   otp |-> otp]>>,
                IF HasPending(body.email) THEN {body.email} ELSE {})
  /\ UNCHANGED <<users, metrics, accepted>>

\* verifyRegistration: PendingUser.findByPk and the checks of the row read.
VerifyFindByPk(email, otp) ==
  LET request == [op |-> "verifyRegistration", email |-> email, otp |-> otp]
      refusal == IF ~HasPending(email) THEN "No registration found for this email"
                 ELSE IF pending[email].otp # otp THEN "Invalid OTP"
                 ELSE IF IsExpired(now, pending[email].expires)
                   THEN "OTP expired. Please request a new one."
                 ELSE Missing
  IN
  /\ InFlight < MaxInFlight
  /\ IF refusal = Missing
       THEN Begin([op |-> "verifyRegistration", email |-> email, otp |-> otp,
                  pc |-> "findOne", row |-> pending[email],
                  userId |-> 0, totalUsers |-> 0])
       ELSE /\ Answer(request, [status |-> 400, message |-> refusal], <<>>, {})
            /\ UNCHANGED calls
  /\ UNCHANGED <<users, pending, metrics, accepted>>

\* verifyRegistration: User.findOne, the duplicate check.
VerifyFindOne(c) ==
  /\ At(c, "verifyRegistration", "findOne")
  /\ Await(c, [c EXCEPT !.pc = IF HasUser(c.email) THEN "destroyDuplicate"
                               ELSE "create"])
  /\ UNCHANGED <<users, pending, metrics, accepted>>

\* verifyRegistration: pending.destroy() of the duplicate branch.
VerifyDestroyDuplicate(c) ==
  /\ At(c, "verifyRegistration", "destroyDuplicate")
  /\ pending' = DestroyPending(c.email)
  /\ Respond(c,
             [status |-> 400, message |-> "User already registered."], <<>>, {})
  /\ UNCHANGED <<users, metrics, accepted>>

\* verifyRegistration: User.create from the row read by findByPk.
VerifyCreate(c) ==
  /\ At(c, "verifyRegistration", "create")
  /\ IF UserCreateRejected(c.email)
       THEN /\ Respond(c,
                       [status |-> 500, message |-> "Server error verifying OTP"],
                       <<>>, {})
            /\ UNCHANGED users
       ELSE /\ users' = Append(users, UserRow(c.row))
            /\ Await(c, [c EXCEPT !.pc = "findOrCreate",
                                  !.userId = Len(users) + 1])
  /\ UNCHANGED <<pending, metrics, accepted>>

\* verifyRegistration: Metric.findOrCreate for today.
VerifyFindOrCreate(c) ==
  LET today == IsoDate(now) IN
  /\ At(c, "verifyRegistration", "findOrCreate")
  /\ IF today \in DOMAIN metrics
       THEN /\ Await(c, [c EXCEPT !.pc = "save",
                                  !.totalUsers = metrics[today].totalUsers + 1])
            /\ UNCHANGED metrics
       ELSE /\ metrics' = BumpMetric(now)
            /\ Await(c, [c EXCEPT !.pc = "destroy"])
  /\ UNCHANGED <<users, pending, accepted>>

\* verifyRegistration: metric.save() writes the count held in memory.
VerifyMetricSave(c) ==
  /\ At(c, "verifyRegistration", "save")
  /\ metrics' = [metrics EXCEPT ![IsoDate(now)].totalUsers = c.totalUsers]
  /\ Await(c, [c EXCEPT !.pc = "destroy", !.totalUsers = 0])
  /\ UNCHANGED <<users, pending, accepted>>

\* verifyRegistration: pending.destroy() and the answer.
VerifyDestroy(c) ==
  /\ At(c, "verifyRegistration", "destroy")
  /\ pending' = DestroyPending(c.email)
  /\ accepted' = accepted \cup {<<c.email, c.otp>>}
  /\ Respond(c,
             [status |-> 201, message |-> "Registration successful",
              userId |-> c.userId],
             <<>>, {})
  /\ UNCHANGED <<users, metrics>>

\* resendOtp: PendingUser.findByPk.
ResendFindByPk(email) ==
  /\ InFlight < MaxInFlight
  /\ IF HasPending(email)
       THEN Begin([op |-> "resendOtp", email |-> email, pc |-> "save"])
       ELSE /\ Answer([op |-> "resendOtp", email |-> email],
                      [status |-> 400,
                       message |-> "No pending registration found for this email"],
                      <<>>, {})
            /\ UNCHANGED calls
  /\ UNCHANGED <<users, pending, metrics, accepted>>

\* resendOtp: pending.save() updates the row of the email if there is one,
\* then the mail and the answer.
ResendSave(c) ==
  /\ At(c, "resendOtp", "save")
  /\ LET email == c.email
         otp == genOTP(RaceDraw)
     IN
     /\ pending' = IF HasPending(email)
                     THEN [pending EXCEPT ![email].otp = otp,
                                          ![email].expires = OtpExpiry(now)]
                     ELSE pending
     /\ Respond(c,
                [status |-> 200, message |-> "OTP resent successfully"],
                <<[to |-> email, subject |-> "Your New OTP", otp |-> otp]>>, {})
  /\ UNCHANGED <<users, metrics, accepted>>

\* Overlapping register, verifyRegistration and resendOtp requests for
\* the emails of Emails.
NextRace ==
  \/ \E b \in RaceBodies : b.email \in Emails /\ RegisterFindOne(b)
  \/ \E e \in Emails : VerifyFindByPk(e, genOTP(RaceDraw))
  \/ \E e \in ResendEmails : ResendFindByPk(e)
  \/ \E c \in DOMAIN calls : RegisterUpsert(c)
  \/ \E c \in DOMAIN calls : VerifyFindOne(c)
  \/ \E c \in DOMAIN calls : VerifyDestroyDuplicate(c)
  \/ \E c \in DOMAIN calls : VerifyCreate(c)
  \/ \E c \in DOMAIN calls : VerifyFindOrCreate(c)
  \/ \E c \in DOMAIN calls : VerifyMetricSave(c)
  \/ \E c \in DOMAIN calls : VerifyDestroy(c)
  \/ \E c \in DOMAIN calls : ResendSave(c)

SpecRace == Init /\ [][NextRace]_vars

\* Overlapping register and verifyRegistration requests for the emails of
\* RaceEmails.
NextVerifyRace ==
  \/ \E b \in RaceBodies : RegisterFindOne(b)
  \/ \E e \in RaceEmails : VerifyFindByPk(e, genOTP(RaceDraw))
  \/ \E c \in DOMAIN calls : RegisterUpsert(c)
  \/ \E c \in DOMAIN calls : VerifyFindOne(c)
  \/ \E c \in DOMAIN calls : VerifyDestroyDuplicate(c)
  \/ \E c \in DOMAIN calls : VerifyCreate(c)
  \/ \E c \in DOMAIN calls : VerifyFindOrCreate(c)
  \/ \E c \in DOMAIN calls : VerifyMetricSave(c)
  \/ \E c \in DOMAIN calls : VerifyDestroy(c)

SpecVerifyRace == Init /\ [][NextVerifyRace]_vars

----------------------------------------------------------------------------
(* exports.getTimeSeries *)

\* The Metric table holds MaxRows rows at most.
MaxRows == 3

\* The rows a Metric table is made of. A date is the number of its day,
\* as IsoDate counts them; day 0 is the day the clock starts in.
MetricRowInputs ==
  { [date |->   0, totalUsers |-> 1, totalSales |-> 2, totalConversions |-> 0],
    [date |->  -1, totalUsers |-> 2, totalSales |-> 0, totalConversions |-> 1],
    [date |->  -1, totalUsers |-> 1, totalSales |-> 3, totalConversions |-> 2],
    [date |-> -30, totalUsers |-> 3, totalSales |-> 1, totalConversions |-> 1],
    [date |-> -31, totalUsers |-> 1, totalSales |-> 1, totalConversions |-> 3] }

MetricTables ==
  UNION {[1 .. n -> MetricRowInputs] : n \in 0 .. MaxRows}

\* req.query.period, a string as the sequence of its characters. The empty
\* sequence is the absent parameter and the empty string, both falsy.
PeriodInputs ==
  { <<>>, <<"3", "0", "d">>, <<"1", "d">>, <<"3", "1", "d">>, <<"0", "d">>,
    <<"0">>, <<"2">>, <<"d">>, <<"a", "b", "c">>, <<"-", "1", "d">> }

\* period || '30d'
PeriodOrDefault(period) == IF period = <<>> THEN <<"3", "0", "d">> ELSE period

RECURSIVE ReplaceFirstD(_)
\* String.prototype.replace('d', ''): the first 'd' is removed.
ReplaceFirstD(str) ==
  IF str = <<>> THEN <<>>
  ELSE IF Head(str) = "d" THEN Tail(str)
  ELSE <<Head(str)>> \o ReplaceFirstD(Tail(str))

IsDigit(ch) == ch \in {ToString(n) : n \in 0 .. 9}

DigitValue(ch) == CHOOSE n \in 0 .. 9 : ToString(n) = ch

RECURSIVE SkipBlanks(_)
SkipBlanks(str) ==
  IF str # <<>> /\ Head(str) = " " THEN SkipBlanks(Tail(str)) ELSE str

RECURSIVE DigitPrefix(_)
\* The longest prefix of str made of decimal digits.
DigitPrefix(str) ==
  IF str # <<>> /\ IsDigit(Head(str))
    THEN <<Head(str)>> \o DigitPrefix(Tail(str))
    ELSE <<>>

RECURSIVE DecimalValue(_)
DecimalValue(digits) ==
  IF digits = <<>> THEN 0
  ELSE 10 * DecimalValue(SubSeq(digits, 1, Len(digits) - 1))
       + DigitValue(digits[Len(digits)])

\* parseInt(str) with no radix, for strings without a 0x prefix: blanks are
\* skipped, a sign is read, then digits up to the first other character.
\* <<>> is NaN, <<n>> the integer n.
ParseInt(str) ==
  LET body == SkipBlanks(str)
      signed == body # <<>> /\ Head(body) \in {"-", "+"}
      digits == DigitPrefix(IF signed THEN Tail(body) ELSE body)
  IN IF digits = <<>> THEN <<>>
     ELSE IF signed /\ Head(body) = "-" THEN <<0 - DecimalValue(digits)>>
     ELSE <<DecimalValue(digits)>>

\* TimeSeriesDays that takes 0 days as asked for.
TimeSeriesDays_ZeroKept(period) ==
  LET parsed == ParseInt(ReplaceFirstD(PeriodOrDefault(period))) IN
  IF parsed = <<>> THEN 30 ELSE parsed[1]

\* parseInt(String(period).replace('d','')) || 30: NaN and 0 are falsy.
TimeSeriesDays(period) ==
  LET parsed == ParseInt(ReplaceFirstD(PeriodOrDefault(period))) IN
  IF parsed = <<>> \/ parsed[1] = 0 THEN 30 ELSE parsed[1]

\* since = new Date(); since.setDate(since.getDate() - days): the same time
\* of day, days days earlier.
Since(t, days) == [day |-> IsoDate(t) - days, timeOfDay |-> t % DayMs]

\* date >= since on a column of day granularity: the date is not before
\* the day of since.
DateNotBefore(date, since) == date >= since.day

\* The rows of the table WHERE date >= since, in storage order.
RowsSince(table, since) ==
  SelectSeq(table, LAMBDA row : DateNotBefore(row.date, since))

RECURSIVE SumColumn(_, _, _)
\* SUM(column) over the rows of one date.
SumColumn(rows, date, column) ==
  IF rows = <<>> THEN 0
  ELSE (IF Head(rows).date = date THEN Head(rows)[column] ELSE 0)
       + SumColumn(Tail(rows), date, column)

RECURSIVE AscendingDates(_)
\* ORDER BY date ASC of the dates of a set.
AscendingDates(dates) ==
  IF dates = {} THEN <<>>
  ELSE LET first == CHOOSE d \in dates : \A e \in dates : d <= e
       IN <<first>> \o AscendingDates(dates \ {first})

\* Metric.findAll: GROUP BY date with the three sums, ORDER BY date ASC.
\* raw: true hands a sum over as the driver gives it, in decimal digits.
FindAllGrouped(table, since) ==
  LET rows == RowsSince(table, since)
      dates == AscendingDates({rows[i].date : i \in DOMAIN rows})
  IN [i \in DOMAIN dates |->
        [date             |-> dates[i],
         totalUsers       |-> ToString(SumColumn(rows, dates[i], "totalUsers")),
         totalSales       |-> ToString(SumColumn(rows, dates[i], "totalSales")),
         totalConversions |->
           ToString(SumColumn(rows, dates[i], "totalConversions"))]]

\* The largest sum a column of a table can have.
SumLimit == 3 * MaxRows

\* Number(value) of a sum in decimal digits.
Number(value) == CHOOSE n \in 0 .. SumLimit : ToString(n) = value

\* results.forEach: one point for every result row in each of the lists.
SeriesOf(results) ==
  [users       |-> [i \in DOMAIN results |->
                      [date |-> results[i].date,
                       value |-> Number(results[i].totalUsers)]],
   sales       |-> [i \in DOMAIN results |->
                      [date |-> results[i].date,
                       value |-> Number(results[i].totalSales)]],
   conversions |-> [i \in DOMAIN results |->
                      [date |-> results[i].date,
                       value |-> Number(results[i].totalConversions)]]]

getTimeSeries(period) ==
  LET days == TimeSeriesDays(period)
      results == FindAllGrouped(metricRows, Since(now, days))
  IN
  /\ req' = [op |-> "getTimeSeries", period |-> period]
  /\ res' = [status |-> 200,
             json |-> [status |-> "success", data |-> SeriesOf(results)]]
  /\ mail' = <<>>
  /\ rewritten' = {}
  /\ NoChain
  /\ UNCHANGED <<users, pending, metrics, now, accepted>>

\* The Metric table holds any rows when the server starts.
InitSeries ==
  /\ metricRows \in MetricTables
  /\ users = <<>>
  /\ pending = NoRows
  /\ metrics = NoRows
  /\ now = StartMs
  /\ req = [op |-> "none"]
  /\ res = [status |-> 0]
  /\ mail = <<>>
  /\ attached = <<>>
  /\ nextCalled = FALSE
  /\ accepted = {}
  /\ rewritten = {}
  /\ calls = NoRows

NextSeries ==
  \/ Tick
  \/ \E period \in PeriodInputs : getTimeSeries(period)

SpecSeries == InitSeries /\ [][NextSeries]_vars

----------------------------------------------------------------------------
(* Properties *)

\* The step handles a request to the handler op (the clock does not move).
Handled(op) == req'.op = op /\ now' = now

\* Some User row has this email.
EmailTaken(email) == \E i \in DOMAIN users : users[i].email = email

\* C1, as stated: every register request whose email already belongs to a
\* User is answered 409.
C1_AnyRegisterForUserEmailConflicts ==
  [][(Handled("register") /\ EmailTaken(req'.body.email))
       => res'.status = 409]_vars

\* C1, amended: every register request that carries username, email and
\* password and whose email already belongs to a User is answered 409, the
\* PendingUser table (and the User table) is left unchanged and no mail is
\* sent.
C1_CompleteRegisterForUserEmailConflicts ==
  [][(/\ Handled("register")
      /\ req'.body.username # "" /\ req'.body.email # "" /\ req'.body.password # ""
      /\ EmailTaken(req'.body.email))
       => /\ res'.status = 409
          /\ pending' = pending
          /\ users' = users
          /\ mail' = <<>>]_vars

\* C1 witness: a complete register for a User's email was answered 409 while
\* a PendingUser row of another email was stored.
C1_Witness ==
  /\ req.op = "register" /\ res.status = 409
  /\ req.body.username # "" /\ req.body.password # ""
  /\ EmailTaken(req.body.email)
  /\ pending # NoRows

\* C2: verifyRegistration for an email with a PendingUser row, with that
\* row's OTP, not after its expiry and with no User of that email, appends
\* exactly one User row with the row's username, name, email, passwordHash,
\* phone and role, removes that PendingUser row, answers 201 with the new
\* row's id, and changes no other User or PendingUser row.
C2_VerifyPromotesPendingToUser ==
  [][(/\ Handled("verifyRegistration")
      /\ req'.email \in DOMAIN pending
      /\ pending[req'.email].otp = req'.otp
      /\ now <= pending[req'.email].expires
      /\ ~EmailTaken(req'.email))
       => LET p == pending[req'.email]
              new == users'[Len(users')]
          IN /\ Len(users') = Len(users) + 1
             /\ \A i \in DOMAIN users : users'[i] = users[i]
             /\ new.username = p.username /\ new.name = p.name
             /\ new.email = req'.email /\ new.passwordHash = p.passwordHash
             /\ new.phone = p.phone /\ new.role = p.role
             /\ \A i \in DOMAIN users : users[i].id # new.id
             /\ DOMAIN pending' = (DOMAIN pending) \ {req'.email}
             /\ \A e \in DOMAIN pending' : pending'[e] = pending[e]
             /\ res'.status = 201
             /\ res'.userId = new.id]_vars

\* C2 witness: a verification was answered 201 for a registration that gave
\* a name, while another User row was stored already.
C2_Witness ==
  /\ req.op = "verifyRegistration" /\ res.status = 201
  /\ Len(users) = 2
  /\ users[2].email = req.email /\ res.userId = users[2].id
  /\ users[2].name = "Alice"

\* C3: a verifyRegistration made after the PendingUser row's expiry is
\* answered 400, creates no User and keeps the row, whatever OTP it carries;
\* and a stored row's expiry is 15 minutes after the latest register or
\* resendOtp that stored an OTP for its email.
C3_ExpiredOtpAlwaysFails ==
  [][/\ (/\ Handled("verifyRegistration")
         /\ req'.email \in DOMAIN pending
         /\ now > pending[req'.email].expires)
          => /\ res'.status = 400
             /\ users' = users
             /\ pending' = pending
     /\ \A e \in DOMAIN pending' :
          IF (Handled("register") /\ res'.status = 200 /\ req'.body.email = e)
             \/ (Handled("resendOtp") /\ res'.status = 200 /\ req'.email = e)
            THEN pending'[e].expires = now + 15 * 60 * 1000
            ELSE e \in DOMAIN pending /\ pending'[e].expires = pending[e].expires]_vars

\* C3 witness: a verification with the stored OTP, made after the row's
\* expiry, was answered 400.
C3_Witness ==
  /\ req.op = "verifyRegistration" /\ res.status = 400
  /\ req.email \in DOMAIN pending
  /\ pending[req.email].otp = req.otp
  /\ now > pending[req.email].expires

\* C4: login returns a token exactly when a User with the email exists and
\* the password matches its stored hash; otherwise (missing email or
\* password, unknown email, wrong password) it answers 400 or 401 without a
\* token; it never changes stored state.
C4_TokenOnlyForMatchingPassword ==
  [][Handled("login")
       => /\ ("token" \in DOMAIN res')
               <=> (/\ req'.email # "" /\ req'.password # ""
                    /\ \E i \in DOMAIN users :
                         /\ users[i].email = req'.email
                         /\ users[i].passwordHash = <<"$2a$10$", req'.password>>)
          /\ ("token" \notin DOMAIN res')
               => res'.status = (IF req'.email = "" \/ req'.password = ""
                                   THEN 400 ELSE 401)
          /\ users' = users /\ pending' = pending /\ metrics' = metrics]_vars

\* C4 witness: a login with a wrong password for an existing User was
\* answered 401 without a token.
C4_Witness ==
  /\ req.op = "login" /\ res.status = 401
  /\ "token" \notin DOMAIN res
  /\ req.password # ""
  /\ EmailTaken(req.email)

\* C5: when login succeeds, the payload signed into the token and returned
\* as user has the id, username, role and email of the stored User.
C5_LoginPayloadMatchesStoredUser ==
  [][(Handled("login") /\ res'.status = 200)
       => \E i \in DOMAIN users :
            LET stored == [id |-> users[i].id, username |-> users[i].username,
                           role |-> users[i].role, email |-> users[i].email]
            IN /\ users[i].email = req'.email
               /\ res'.user = stored
               /\ res'.token.claims.id = stored.id
               /\ res'.token.claims.username = stored.username
               /\ res'.token.claims.role = stored.role
               /\ res'.token.claims.email = stored.email
               /\ res'.token.sig = <<"jwt-secret", res'.token.claims>>]_vars

\* C5 witness: a login of the second User, whose role is admin, succeeded.
C5_Witness ==
  /\ req.op = "login" /\ res.status = 200
  /\ res.user.id = 2 /\ res.user.role = "admin"
  /\ res.token.claims.exp > now

\* C6: a role gate calls next and sends no response exactly when the request
\* has an attached user whose role is in the permitted set (the roles given
\* to requireRole, {admin} for isAdmin, {staff} for isStaff); otherwise it
\* answers 403 and does not call next. A request without an attached user
\* is always rejected.
C6_RoleGatePassesOnlyPermittedRoles ==
  [][(Handled("requireRole") \/ Handled("isAdmin") \/ Handled("isStaff"))
       => LET permitted == CASE req'.op = "requireRole" -> req'.roles
                             [] req'.op = "isAdmin" -> {"admin"}
                             [] OTHER -> {"staff"}
              allowed == attached' # <<>> /\ attached'[1].role \in permitted
          IN /\ nextCalled' <=> allowed
             /\ allowed => res'.status = 0
             /\ ~allowed => res'.status = 403
             /\ users' = users]_vars

\* C6 witness: requireRole with a non-empty role set answered 403 to a
\* request whose attached user has a role outside the set.
C6_Witness ==
  /\ req.op = "requireRole" /\ req.roles # {}
  /\ attached # <<>>
  /\ attached[1].role \notin req.roles
  /\ res.status = 403 /\ ~nextCalled

\* C7: authMiddleware calls next exactly when the header starts with
\* 'Bearer ', its token verifies (signature and expiry) and a User with the
\* token's id is stored; it then attaches that stored User row and sends no
\* response. In every other case it answers 401, attaches nothing and does
\* not call next.
C7_AuthMiddlewareAttachesStoredUser ==
  [][Handled("authMiddleware")
       => LET h == req'.header
              ok == /\ Len(h) >= 2
                    /\ h[1] = "Bearer"
                    /\ h[2].sig = <<"jwt-secret", h[2].claims>>
                    /\ now < h[2].claims.exp
                    /\ h[2].claims.id \in DOMAIN users
          IN /\ nextCalled' <=> ok
             /\ ok => /\ attached' = <<users[h[2].claims.id]>>
                      /\ users[h[2].claims.id].id = h[2].claims.id
                      /\ res'.status = 0
             /\ ~ok => /\ attached' = <<>>
                       /\ res'.status = 401
             /\ users' = users]_vars

\* C7 witness: authMiddleware called next with a stored User attached whose
\* role is not the role claim of the token.
C7_Witness ==
  /\ req.op = "authMiddleware" /\ nextCalled
  /\ attached = <<users[req.header[2].claims.id]>>
  /\ attached[1].role # req.header[2].claims.role

\* C8: a register with all required fields for an email without a User is
\* answered 200; a verifyRegistration with the stored OTP, not after its
\* expiry, is then answered 201 with the id of a stored User and leaves no
\* PendingUser row for the email; and every later verifyRegistration for
\* that email with that OTP is answered 400 and creates no User.
C8_AcceptedOtpIsConsumed ==
  [][/\ (/\ Handled("register")
         /\ req'.body.username # "" /\ req'.body.email # ""
         /\ req'.body.password # ""
         /\ ~EmailTaken(req'.body.email))
          => res'.status = 200 /\ req'.body.email \in DOMAIN pending'
     /\ (/\ Handled("verifyRegistration")
         /\ <<req'.email, req'.otp>> \notin accepted
         /\ req'.email \in DOMAIN pending
         /\ pending[req'.email].otp = req'.otp
         /\ now <= pending[req'.email].expires
         /\ ~EmailTaken(req'.email))
          => /\ res'.status = 201
             /\ res'.userId \in DOMAIN users'
             /\ users'[res'.userId].email = req'.email
             /\ req'.email \notin DOMAIN pending'
             /\ <<req'.email, req'.otp>> \in accepted'
     /\ (Handled("verifyRegistration") /\ <<req'.email, req'.otp>> \in accepted)
          => /\ res'.status = 400
             /\ users' = users
             /\ req'.email \notin DOMAIN pending']_vars

\* C8 witness: a verifyRegistration that repeated an accepted OTP, still
\* within 15 minutes of its registration, was answered 400 with one User.
C8_Witness ==
  /\ req.op = "verifyRegistration" /\ res.status = 400
  /\ <<req.email, req.otp>> \in accepted
  /\ Len(users) = 1
  /\ users[1].email = req.email /\ users[1].otpExpires >= now

\* C9: once verifyRegistration has accepted an OTP for an email, no later
\* verifyRegistration or verifyOtpReset for that email accepts that OTP.
C9_AcceptedOtpNeverAcceptedAgain ==
  [][((Handled("verifyRegistration") \/ Handled("verifyOtpReset"))
      /\ <<req'.email, req'.otp>> \in accepted)
       => /\ res'.status \notin {200, 201}
          /\ users' = users]_vars

\* C10: verifyOtpReset changes a User row only when email, OTP and new
\* password are given, the User exists, its otp is not null and equals the
\* given OTP, and the time is not past otpExpires; it then stores the hash
\* of the new password and sets otp and otpExpires to null, so the same OTP
\* is answered 400 afterwards. Every failing outcome (400 for missing
\* fields, 404 for an unknown email, 400 for a wrong or expired OTP) leaves
\* the User table unchanged.
C10_ResetOnlyWithStoredUnexpiredOtp ==
  [][Handled("verifyOtpReset")
       => LET present == req'.email # "" /\ req'.otp # "" /\ req'.newPassword # ""
              match == {i \in DOMAIN users :
                          /\ users[i].email = req'.email
                          /\ users[i].otp # "null"
                          /\ users[i].otp = req'.otp
                          /\ now <= users[i].otpExpires}
              ok == present /\ match # {}
          IN /\ ok => /\ res'.status = 200
                      /\ DOMAIN users' = DOMAIN users
                      /\ \A i \in DOMAIN users :
                           users'[i] =
                             IF i \in match
                               THEN [users[i] EXCEPT
                                       !.passwordHash = <<"$2a$10$", req'.newPassword>>,
                                       !.otp = "null",
                                       !.otpExpires = -1]
                               ELSE users[i]
             /\ ~ok => /\ users' = users
                       /\ res'.status =
                            (IF ~present THEN 400
                             ELSE IF ~EmailTaken(req'.email) THEN 404
                             ELSE 400)
             /\ (present /\ \E i \in DOMAIN users :
                              users[i].email = req'.email /\ users[i].otp = "null")
                  => res'.status = 400
             /\ pending' = pending]_vars

\* C10 witness: after a reset stored the new password's hash and cleared
\* the OTP, a verifyOtpReset for that User was answered 400.
C10_Witness ==
  /\ req.op = "verifyOtpReset" /\ res.status = 400
  /\ req.email # "" /\ req.otp # "" /\ req.newPassword # ""
  /\ \E i \in DOMAIN users :
       /\ users[i].email = req.email
       /\ users[i].otp = "null" /\ users[i].otpExpires = -1
       /\ users[i].passwordHash = <<"$2a$10$", "pw-new">>

\* The step handles a verifyRegistration in which the named store call threw.
HandledFault(fault) ==
  /\ Handled("verifyRegistration")
  /\ "fault" \in DOMAIN req'
  /\ req'.fault = fault

\* The step handles a verifyRegistration in which no store call threw.
HandledVerify == Handled("verifyRegistration") /\ "fault" \notin DOMAIN req'

\* The PendingUser table without the row of this email, other rows equal.
PendingRowRemoved(email) ==
  /\ DOMAIN pending' = (DOMAIN pending) \ {email}
  /\ \A e \in DOMAIN pending' : pending'[e] = pending[e]

\* C11: when the Metric update throws during an otherwise successful
\* verifyRegistration, the User is created, the PendingUser row is deleted
\* and the answer is 201 with the new User's id.
C11_MetricFailureDoesNotFailRequest ==
  [][HandledFault("metric")
       => /\ Len(users') = Len(users) + 1
          /\ \A i \in DOMAIN users : users'[i] = users[i]
          /\ users'[Len(users')].email = req'.email
          /\ PendingRowRemoved(req'.email)
          /\ req'.email \in DOMAIN pending
          /\ metrics' = metrics
          /\ res'.status = 201
          /\ res'.userId = users'[Len(users')].id]_vars

\* C11 witness: a verification whose Metric update threw was answered 201;
\* its User is stored, its PendingUser row is gone, no Metric row exists.
C11_Witness ==
  /\ req.op = "verifyRegistration" /\ "fault" \in DOMAIN req
  /\ req.fault = "metric" /\ res.status = 201
  /\ metrics = NoRows
  /\ Len(users) = 1 /\ users[1].email = req.email
  /\ req.email \notin DOMAIN pending

\* C15: when pending.destroy() throws after User.create, the request ends
\* with 500 and both the new User and the PendingUser row stay stored. From
\* a state with both rows, a verifyRegistration with the row's unexpired OTP
\* creates no User, deletes the row and answers 400, and a register with
\* all required fields for that email answers 409.
C15_LeftoverPendingIsCleanedUp ==
  [][/\ (HandledFault("destroy") /\ ~EmailTaken(req'.email))
          => /\ res'.status = 500
             /\ Len(users') = Len(users) + 1
             /\ \A i \in DOMAIN users : users'[i] = users[i]
             /\ users'[Len(users')].email = req'.email
             /\ req'.email \in DOMAIN pending
             /\ pending' = pending
     /\ (/\ HandledVerify
         /\ EmailTaken(req'.email)
         /\ req'.email \in DOMAIN pending
         /\ pending[req'.email].otp = req'.otp
         /\ now <= pending[req'.email].expires)
          => /\ users' = users
             /\ PendingRowRemoved(req'.email)
             /\ res'.status = 400
     /\ (/\ Handled("register")
         /\ req'.body.username # "" /\ req'.body.email # ""
         /\ req'.body.password # ""
         /\ EmailTaken(req'.body.email)
         /\ req'.body.email \in DOMAIN pending)
          => /\ res'.status = 409
             /\ users' = users /\ pending' = pending]_vars

\* C15 witness: with one User stored, a verification of that User's email
\* was answered 400 as a duplicate and the leftover PendingUser row is gone.
C15_Witness ==
  /\ req.op = "verifyRegistration" /\ "fault" \notin DOMAIN req
  /\ res.status = 400 /\ res.message = "User already registered."
  /\ Len(users) = 1 /\ users[1].email = req.email
  /\ <<req.email, req.otp>> \in accepted
  /\ req.email \notin DOMAIN pending

\* C18: a verifyRegistration for an email without a PendingUser row, with
\* an OTP that is not the row's, or after the row's expiry is answered 400
\* and leaves the User, PendingUser and Metric tables unchanged; any other
\* verifyRegistration answered 400 is one for an email that has a User
\* already, and it deletes that email's PendingUser row and nothing else.
C18_FailedVerifyLeavesStoresUnchanged ==
  [][Handled("verifyRegistration")
       => LET e == req'.email
              absent == e \notin DOMAIN pending
              mismatch == ~absent /\ pending[e].otp # req'.otp
              expired == ~absent /\ now > pending[e].expires
          IN /\ (absent \/ mismatch \/ expired)
                  => /\ res'.status = 400
                     /\ users' = users
                     /\ pending' = pending
                     /\ metrics' = metrics
             /\ (res'.status = 400 /\ ~(absent \/ mismatch \/ expired))
                  => /\ EmailTaken(e)
                     /\ PendingRowRemoved(e)
                     /\ users' = users
                     /\ metrics' = metrics]_vars

\* C18 witness: a verification with a wrong OTP, for an email that has both
\* a User and a leftover PendingUser row, was answered 400 and the row is
\* still stored.
C18_Witness ==
  /\ req.op = "verifyRegistration" /\ res.status = 400
  /\ res.message = "Invalid OTP"
  /\ EmailTaken(req.email)
  /\ req.email \in DOMAIN pending
  /\ pending[req.email].otp # req.otp

\* The fields of a PendingUser row that come from the register body.
Registration(row) ==
  [username |-> row.username, name |-> row.name,
   passwordHash |-> row.passwordHash, phone |-> row.phone, role |-> row.role]

\* The step stores an OTP for this email by a register answered 200.
RegisterStores(email) ==
  Handled("register") /\ res'.status = 200 /\ req'.body.email = email

\* The step stores an OTP for this email by a resendOtp answered 200.
ResendStores(email) ==
  Handled("resendOtp") /\ res'.status = 200 /\ req'.email = email

\* C16: the PendingUser table holds one row per email, and a register
\* answered 200 replaces the whole row of its email (username, name,
\* passwordHash, phone, role, otp, expires) whether or not one was there;
\* no other request changes a row's registration fields, and none but
\* resendOtp its OTP; so a verifyRegistration answered 201 carried the OTP
\* of the latest register or resendOtp and creates the User from the fields
\* of the latest register.
C16_RegisterOverwritesPendingRow ==
  [][/\ \A e \in DOMAIN pending' :
          IF RegisterStores(e)
            THEN /\ pending'[e] =
                      [email |-> e,
                       username |-> req'.body.username,
                       name |-> req'.body.name,
                       passwordHash |-> <<"$2a$10$", req'.body.password>>,
                       phone |-> req'.body.phone,
                       role |-> IF req'.body.role = "" THEN "staff"
                                ELSE req'.body.role,
                       otp |-> mail'[1].otp,
                       expires |-> now + 15 * 60 * 1000]
                 /\ mail'[1].to = e
                 /\ (e \in rewritten') <=> (e \in DOMAIN pending)
            ELSE /\ e \in DOMAIN pending
                 /\ Registration(pending'[e]) = Registration(pending[e])
                 /\ ResendStores(e) \/ pending'[e] = pending[e]
     /\ Handled("register") => DOMAIN pending \subseteq DOMAIN pending'
     /\ (Handled("verifyRegistration") /\ res'.status = 201)
          => /\ req'.email \in DOMAIN pending
             /\ req'.otp = pending[req'.email].otp
             /\ Registration(users'[res'.userId]) = Registration(pending[req'.email])
             /\ users'[res'.userId].email = req'.email]_vars

\* C16 witness: a register was answered 200 for an email whose PendingUser
\* row, stored by an earlier register, it overwrote with its own fields.
C16_Witness ==
  /\ req.op = "register" /\ res.status = 200
  /\ req.body.email \in rewritten
  /\ pending[req.body.email].username = req.body.username
  /\ pending[req.body.email].otp = mail[1].otp
  /\ req.body.username = "bob"

\* C17: resendOtp for an email with a PendingUser row stores a newly
\* generated OTP (the one it mails) and the expiry now + 15 minutes in that
\* row, changes nothing else and creates no User, so that a later
\* verifyRegistration is accepted only with the OTP stored last; for an
\* email without a row (a verified User's too) and for a missing email it
\* answers 400 and changes nothing.
C17_ResendRenewsOtpAndExpiry ==
  [][/\ Handled("resendOtp")
          => IF req'.email # "" /\ req'.email \in DOMAIN pending
               THEN /\ res'.status = 200
                    /\ Len(mail') = 1
                    /\ mail'[1].to = req'.email
                    /\ mail'[1].otp \in {ToString(n) : n \in {100000, 999100}}
                    /\ pending' =
                         [pending EXCEPT
                            ![req'.email] = [@ EXCEPT
                                               !.otp = mail'[1].otp,
                                               !.expires = now + 15 * 60 * 1000]]
                    /\ users' = users
               ELSE /\ res'.status = 400
                    /\ pending' = pending
                    /\ users' = users
                    /\ mail' = <<>>
     /\ (Handled("verifyRegistration") /\ res'.status = 201)
          => /\ req'.email \in DOMAIN pending
             /\ pending[req'.email].otp = req'.otp
             /\ now <= pending[req'.email].expires]_vars

\* C17 witness: after the clock has moved, a resendOtp was answered 200 and
\* the row holds the mailed OTP, the new expiry and the registration of the
\* second body.
C17_Witness ==
  /\ req.op = "resendOtp" /\ res.status = 200
  /\ now > StartMs
  /\ pending[req.email].otp = mail[1].otp
  /\ pending[req.email].expires = now + 15 * 60 * 1000
  /\ pending[req.email].username = "bob"
  /\ pending[req.email].role = "staff"

----------------------------------------------------------------------------
(* Overlapping requests *)

\* The step is the answer of the handler at c.
Answers(c) == c \in DOMAIN calls /\ calls' = WithoutCall(c)

C13_TotalUsersCountsVerifiedUsers ==
  (DOMAIN calls = {} /\ Len(users) > 0)
    => /\ IsoDate(now) \in DOMAIN metrics
       /\ metrics[IsoDate(now)].totalUsers = Len(users)

\* C14: once no request is in flight, no email has both a User row and a
\* PendingUser row.
C14_NoEmailIsBothUserAndPending ==
  DOMAIN calls = {} => \A e \in Emails : ~(HasUser(e) /\ HasPending(e))

----------------------------------------------------------------------------
(* getTimeSeries *)

\* The number of days a period asks for: the number in front of the d, and
\* 30 for a period that is absent, holds no number or asks for 0 days.
RequestedDays(period) ==
  CASE period = <<"1", "d">> -> 1
    [] period = <<"3", "1", "d">> -> 31
    [] period = <<"3", "0", "d">> -> 30
    [] period = <<"2">> -> 2
    [] period = <<"-", "1", "d">> -> 0 - 1
    [] OTHER -> 30

RECURSIVE ColumnTotal(_, _)
\* The sum of a column over the rows of the Metric table at the positions
\* of ids.
ColumnTotal(ids, column) ==
  IF ids = {} THEN 0
  ELSE LET i == CHOOSE k \in ids : TRUE
       IN metricRows[i][column] + ColumnTotal(ids \ {i}, column)

\* C19: getTimeSeries answers three lists of one length, with one point for
\* every date that a Metric row not earlier than the cutoff carries, the
\* same date at the same position of the three lists, the dates ascending,
\* and every value the sum of its column over the rows of its date; the
\* cutoff is the requested number of days before today, 30 when the period
\* is absent, holds no number or asks for 0.
C19_TimeSeriesSumsPerDateSinceCutoff ==
  [][Handled("getTimeSeries") =>
       LET data == res'.json.data
           cutoff == IsoDate(now) - RequestedDays(req'.period)
           kept == {i \in DOMAIN metricRows : metricRows[i].date >= cutoff}
           dates == {metricRows[i].date : i \in kept}
           RowsOf(date) == {i \in kept : metricRows[i].date = date}
           n == Len(data.users)
       IN /\ res'.status = 200
          /\ res'.json.status = "success"
          /\ DOMAIN data = {"users", "sales", "conversions"}
          /\ n = Cardinality(dates)
          /\ Len(data.sales) = n
          /\ Len(data.conversions) = n
          /\ {data.users[i].date : i \in 1 .. n} = dates
          /\ \A i \in 1 .. n :
               /\ data.sales[i].date = data.users[i].date
               /\ data.conversions[i].date = data.users[i].date
               /\ data.users[i].value =
                    ColumnTotal(RowsOf(data.users[i].date), "totalUsers")
               /\ data.sales[i].value =
                    ColumnTotal(RowsOf(data.users[i].date), "totalSales")
               /\ data.conversions[i].value =
                    ColumnTotal(RowsOf(data.users[i].date), "totalConversions")
          /\ \A i, j \in 1 .. n :
               i < j => data.users[i].date < data.users[j].date]_vars

\* C19 witness: a period of 0 days was asked for a table that stores a row
\* of today in front of two rows of yesterday; the answer has yesterday's
\* point first, with the sum of the two rows, then today's.
C19_Witness ==
  /\ req.op = "getTimeSeries" /\ req.period = <<"0", "d">>
  /\ now = StartMs
  /\ Len(metricRows) = 3
  /\ metricRows[1].date = IsoDate(now)
  /\ metricRows[2].date = IsoDate(now) - 1
  /\ metricRows[3].date = IsoDate(now) - 1
  /\ metricRows[2] # metricRows[3]
  /\ Len(res.json.data.users) = 2
  /\ res.json.data.users[1] = [date |-> IsoDate(now) - 1, value |-> 3]
  /\ res.json.data.sales[1] = [date |-> IsoDate(now) - 1, value |-> 3]
  /\ res.json.data.conversions[2] = [date |-> IsoDate(now), value |-> 0]

====
